---------------------------- MODULE Spec2Model ----------------------------
(***************************************************************************)
(* State-machine model of GeminiService (src/src/preload/index.ts): the    *)
(* live session controller, its reconnection procedure and the turn        *)
(* recorder.  Every handler of the service runs to its next await as one   *)
(* atomic action (the JavaScript event loop runs one task at a time), so   *)
(* interleavings happen exactly at the awaits of the source.               *)
(*                                                                         *)
(* Texts are sequences of one-character strings, so that String.includes,  *)
(* String.trim and concatenation are computed and not assumed.             *)
(***************************************************************************)
EXTENDS Integers, Sequences, FiniteSets, TLC

VARIABLES
    currentSession,         \* the transport handle held: 0 is null, else a transport id
    currentSessionId,       \* Date.now() taken by initializeNewSession
    currentTranscription,   \* pending transcription buffer (text)
    messageBuffer,          \* pending response buffer (text)
    conversationHistory,    \* sequence of turns [transcription, ai_response]
    isInitializingSession,  \* the connect-in-progress flag
    reconnectionAttempts,
    lastSessionParams,      \* NoParams (null) or the stored parameters
    transports,             \* the external transports: id -> "none"|"open"|"closing";
                            \* the handle held may outlive its transport ("none" again)
    now,                    \* the millisecond clock read by Date.now()
    googleSearchEnabled,    \* the renderer's stored setting 'googleSearchEnabled':
                            \* "true", "false", or "null" while nothing is stored
    toolsAtConnect,         \* history: the tools resolved for the last accepted connect
    initCall,               \* the initializeGeminiSession call in progress, if any
    delayed,                \* number of attemptReconnection calls waiting out their delay
    authHalted,             \* history: an auth failure was classified since the last accepted connect
    userClosed,             \* history: close-session ran since the last accepted connect
    openAttempts,           \* history, kept by ToolsResolvedCounted: client.live.connect
                            \* calls made by reconnection since the counter was last 0
    systemAudioProc,        \* "null", "running", "failed" (spawned without a pid) or
                            \* "dead" (the same, after its 'error' event)
    audioBuffer,            \* byte length of the capture's audioBuffer
    audioFrom,              \* position in the capture's stream of audioBuffer's first byte
    audioReceived,          \* history: bytes the capture's stdout has delivered
    audioForwarded,         \* history: byte lengths of the mono chunks handed to
                            \* sendAudioToGemini by the capture, in order
    audioSent,              \* history: the chunks handed to sendRealtimeInput by the
                            \* capture, in order, each by its position in the stream
    earlierProc,            \* a subprocess spawned by an earlier start that the handle
                            \* does not refer to: "none"; "killed" (by pkill, its 'close'
                            \* event is still to come); "running"
    last                    \* observation of the last handler run: what it was given and what it gave

vars == <<currentSession, currentSessionId, currentTranscription, messageBuffer,
          conversationHistory, isInitializingSession, reconnectionAttempts,
          lastSessionParams, transports, now, googleSearchEnabled, toolsAtConnect,
          initCall, delayed, authHalted,
          userClosed, openAttempts, systemAudioProc, audioBuffer, audioFrom,
          audioReceived, audioForwarded, audioSent, earlierProc, last>>

recorderVars == <<currentSessionId, currentTranscription, messageBuffer, conversationHistory>>
toolVars == <<googleSearchEnabled, toolsAtConnect>>
captureVars == <<audioBuffer, audioFrom, audioReceived, audioForwarded, audioSent,
                 earlierProc>>
audioVars == <<systemAudioProc, captureVars>>

-----------------------------------------------------------------------------
(* Bounds of the model *)

MaxTransports == 2      \* transports that are open or closing at the same time
MaxDelayed == 1         \* reconnection procedures waiting out their delay at the same time
MaxClock == 1           \* the clock stops ticking here
MaxBuf == 1             \* characters a pending buffer may hold (SpecRecorder)
MaxTurns == 1           \* turns a history may hold (SpecRecorder)

(* Program constants *)

maxReconnectionAttempts == 3

TransportIds == 1..MaxTransports
NoParams == "null"
Params == {"key1", "key2"}      \* distinct {apiKey, customPrompt, profile, language} tuples

-----------------------------------------------------------------------------
(* Texts *)

Txt_unauthorized == <<"u","n","a","u","t","h","o","r","i","z","e","d">>
Txt_Unauthorized == <<"U","n","a","u","t","h","o","r","i","z","e","d">>
Txt_APIkeynotvalid == <<"A","P","I"," ","k","e","y"," ","n","o","t"," ","v","a","l","i","d">>
Txt_apikeynotvalid == <<"a","p","i"," ","k","e","y"," ","n","o","t"," ","v","a","l","i","d">>
Txt_invalidAPIkey == <<"i","n","v","a","l","i","d"," ","A","P","I"," ","k","e","y">>
Txt_invalidapikey == <<"i","n","v","a","l","i","d"," ","a","p","i"," ","k","e","y">>
Txt_authenticationfailed == <<"a","u","t","h","e","n","t","i","c","a","t","i","o","n"," ",
                              "f","a","i","l","e","d">>
Txt_401unauthorized == <<"4","0","1"," ">> \o Txt_unauthorized
Txt_network == <<"n","e","t">>
Txt_empty == <<>>

\* String.prototype.includes
Includes(s, p) == \E i \in 0..(Len(s) - Len(p)) : SubSeq(s, i + 1, i + Len(p)) = p

IsSpace(c) == c = " "

\* String.prototype.trim
RECURSIVE TrimStart(_)
TrimStart(s) == IF s # <<>> /\ IsSpace(Head(s)) THEN TrimStart(Tail(s)) ELSE s
RECURSIVE TrimEnd(_)
TrimEnd(s) == IF s # <<>> /\ IsSpace(s[Len(s)]) THEN TrimEnd(SubSeq(s, 1, Len(s) - 1)) ELSE s
Trim(s) == TrimEnd(TrimStart(s))


-----------------------------------------------------------------------------
(* Inputs drawn by the environment *)

\* e.message of onerror, e.reason of onclose ("" also stands for an absent text)
Reasons == {Txt_unauthorized, Txt_Unauthorized, Txt_401unauthorized,
            Txt_APIkeynotvalid, Txt_apikeynotvalid, Txt_invalidAPIkey,
            Txt_authenticationfailed, Txt_network, Txt_empty}

\* the text of one fragment; <<>> is "no such part in the message"
FragTexts == {<<"a">>, <<" ">>}

\* a server message: serverContent.{inputTranscription.text, modelTurn.parts[].text,
\* generationComplete, turnComplete}; the turn-complete signal comes alone
Messages == [transcription : FragTexts \cup {<<>>},
             parts : {<<>>} \cup {<<x>> : x \in FragTexts},
             generationComplete : BOOLEAN,
             turnComplete : {FALSE}]
            \cup {[transcription |-> <<>>, parts |-> <<>>,
                   generationComplete |-> FALSE, turnComplete |-> TRUE]}

-----------------------------------------------------------------------------
(* Observations: what the last handler run was given, returned and emitted *)

NoArg == [none |-> TRUE]

Status(text, detail) == [text |-> text, detail |-> detail]
StConnected == Status("Live session connected", <<>>)
StListening == Status("Listening...", <<>>)
StSessionClosed == Status("Session closed", <<>>)
StClosedInvalidKey == Status("Session closed: Invalid API key", <<>>)
StErrorInvalidKey == Status("Error: Invalid API key", <<>>)
StErrorAlwaysInvalidKey(m) == StErrorInvalidKey
StError(m) == Status("Error: ", m)

\* op: the handler; arg: its input; ret: its result; data: the payload of the result;
\* status, response, saved: the 'update-status', 'update-response' and
\* 'save-conversation-turn' events it sent to the renderer, in order;
\* sent: its sendRealtimeInput calls, in order
Obs(op, arg, ret, status) ==
    [op |-> op, arg |-> arg, ret |-> ret, data |-> NoArg, status |-> status,
     response |-> <<>>, saved |-> <<>>, sent |-> <<>>]

-----------------------------------------------------------------------------
(* The service's pure pieces *)

\* String.prototype.toLowerCase, on the letters the texts use
ToLowerCase(s) ==
    [i \in 1..Len(s) |->
        CASE s[i] = "A" -> "a" [] s[i] = "P" -> "p" [] s[i] = "I" -> "i"
          [] s[i] = "U" -> "u" [] OTHER -> s[i]]

\* onerror / onclose: isApiKeyError (String.includes is case-sensitive)
isApiKeyErrorIgnoringCase(m) ==
    /\ m # <<>>
    /\ \/ Includes(ToLowerCase(m), ToLowerCase(Txt_APIkeynotvalid))
       \/ Includes(ToLowerCase(m), ToLowerCase(Txt_invalidAPIkey))
       \/ Includes(ToLowerCase(m), Txt_authenticationfailed)
       \/ Includes(ToLowerCase(m), Txt_unauthorized)
isApiKeyError(m) ==
    /\ m # <<>>
    /\ \/ Includes(m, Txt_APIkeynotvalid)
       \/ Includes(m, Txt_invalidAPIkey)
       \/ Includes(m, Txt_authenticationfailed)
       \/ Includes(m, Txt_unauthorized)

\* reconnectionAttempts < maxReconnectionAttempts
BudgetLeftOrSpent(attempts) == attempts <= maxReconnectionAttempts
BudgetLeft(attempts) == attempts < maxReconnectionAttempts

\* initializeGeminiSession's first statement: the re-entrancy check
NeverInProgress(flag) == FALSE
InitializationInProgress(flag) == flag

\* onmessage: the condition under which the flush saves a turn
TranscriptionOnly(transcription, response) == transcription # <<>>
ShouldSaveTurn(transcription, response) == transcription # <<>> /\ response # <<>>

\* onmessage: the pending buffers a flush leaves
TranscriptionAfterFlush(saved, transcription) == IF saved THEN <<>> ELSE transcription
ResponseKept(response) == response
ResponseAfterFlush(response) == <<>>

\* onmessage: the 'update-response' events of a flush
NoUpdateResponse(response) == <<>>
UpdateResponse(response) == <<response>>

\* initializeGeminiSession: "only if not reconnecting"
EvenWhenReconnecting(isReconnection) == TRUE
UnlessReconnecting(isReconnection) == ~isReconnection

\* saveConversationTurn: the turn it constructs (its timestamp is not modelled)
Turn(transcription, aiResponse) ==
    [transcription |-> Trim(transcription), ai_response |-> Trim(aiResponse)]

\* saveConversationTurn: sendToRenderer('save-conversation-turn', ...), the event sent
SaveConversationTurnNotSent(sessionId, turn, fullHistory) == <<>>
SaveConversationTurnSent(sessionId, turn, fullHistory) ==
    <<[sessionId |-> sessionId, turn |-> turn, fullHistory |-> fullHistory]>>

\* onmessage: messageBuffer after the parts of a message were appended
RECURSIVE AppendParts(_, _)
AppendParts(buffer, parts) ==
    IF parts = <<>> THEN buffer ELSE AppendParts(buffer \o Head(parts), Tail(parts))

\* attemptReconnection up to its await of the delay: the entry check and the increment.
\* Gives the new counter, the new number of waiting procedures and the status emitted.
attemptWithoutCounting(params, attempts, waiting) ==
    IF params = NoParams \/ ~BudgetLeft(attempts)
    THEN [attempts |-> attempts, delayed |-> waiting, status |-> <<StSessionClosed>>]
    ELSE [attempts |-> attempts, delayed |-> waiting + 1, status |-> <<>>]
attemptReconnection(params, attempts, waiting) ==
    IF params = NoParams \/ ~BudgetLeft(attempts)
    THEN [attempts |-> attempts, delayed |-> waiting, status |-> <<StSessionClosed>>]
    ELSE [attempts |-> attempts + 1, delayed |-> waiting + 1, status |-> <<>>]

\* attemptReconnection after a failed attempt: "If this attempt failed, try again"
retryAfterFailure(params, attempts, waiting) ==
    IF BudgetLeft(attempts)
    THEN attemptReconnection(params, attempts, waiting)
    ELSE [attempts |-> attempts, delayed |-> waiting, status |-> <<StSessionClosed>>]

\* onerror / onclose on an auth failure: "Stop reconnection attempts", the counter is
\* set to the maximum
ResetAttempts(max) == 0
StopReconnectionAttempts(max) == max

\* getStoredSetting('googleSearchEnabled', 'true'): "stored || defaultValue"
StoredOnly(stored, defaultValue) == stored
getStoredSetting(stored, defaultValue) ==
    IF stored \in {"null", ""} THEN defaultValue ELSE stored

\* getEnabledTools: the tools of the configuration passed to client.live.connect
getEnabledTools(stored) ==
    IF getStoredSetting(stored, "true") = "true" THEN {"googleSearch"} ELSE {}

\* no tools were resolved yet
NotResolved == {"not resolved"}

Idle == [pc |-> "idle", isReconnection |-> FALSE]

FreeTransports == {t \in TransportIds : transports[t] = "none"}
NewTransport == CHOOSE t \in FreeTransports : \A u \in FreeTransports : t <= u


\* sendReconnectionContext: the non-empty transcriptions of the history, oldest first
AllTranscriptions(history) == [i \in 1..Len(history) |-> history[i].transcription]
RECURSIVE Transcriptions(_)
Transcriptions(history) ==
    IF history = <<>> THEN <<>>
    ELSE (IF Trim(Head(history).transcription) # <<>>
          THEN <<Head(history).transcription>> ELSE <<>>) \o Transcriptions(Tail(history))

\* Array.prototype.join('\n')
RECURSIVE Join(_)
Join(texts) ==
    IF texts = <<>> THEN <<>>
    ELSE IF Len(texts) = 1 THEN Head(texts)
    ELSE Head(texts) \o <<"\n">> \o Join(Tail(texts))

ContextPrefix ==
    <<"Till now all these questions were asked in the interview, answer the last one please:\n\n">>

\* sendReconnectionContext: the sendRealtimeInput calls it makes on the handle held
sendReconnectionContext(handle, history) ==
    IF handle = 0 \/ history = <<>> \/ Transcriptions(history) = <<>>
    THEN <<>>
    ELSE <<[to |-> handle, kind |-> "text",
            text |-> ContextPrefix \o Join(Transcriptions(history))]>>

-----------------------------------------------------------------------------
(* The state after construction: the constructor calls initializeNewSession *)

InitService ==
    /\ currentSession = 0
    /\ now = 0
    /\ googleSearchEnabled = "null"
    /\ toolsAtConnect = NotResolved
    /\ currentSessionId = now
    /\ currentTranscription = <<>>
    /\ messageBuffer = <<>>
    /\ conversationHistory = <<>>
    /\ isInitializingSession = FALSE
    /\ reconnectionAttempts = 0
    /\ lastSessionParams = NoParams
    /\ transports = [t \in TransportIds |-> "none"]
    /\ initCall = Idle
    /\ delayed = 0
    /\ authHalted = FALSE
    /\ userClosed = FALSE
    /\ openAttempts = 0
    /\ systemAudioProc = "null"
    /\ audioBuffer = 0
    /\ audioFrom = 0
    /\ audioReceived = 0
    /\ audioForwarded = <<>>
    /\ audioSent = <<>>
    /\ earlierProc = "none"

Init ==
    /\ InitService
    /\ last = Obs("constructor", NoArg, "none", <<>>)

-----------------------------------------------------------------------------
(* ipcMain 'initialize-gemini': initializeGeminiSession(apiKey, ...) up to its first   *)
(* await (getEnabledTools).  Rejected at once while an initialization is in progress;  *)
(* the handler then returns false.                                                     *)

Connect(p) ==
    IF InitializationInProgress(isInitializingSession)
    THEN /\ last' = Obs("connect", [params |-> p], "false", <<>>)
         /\ UNCHANGED <<currentSession, recorderVars, isInitializingSession,
                        reconnectionAttempts, lastSessionParams, transports, now, toolVars,
                        initCall, delayed, authHalted, userClosed, openAttempts,
                        audioVars>>
    ELSE /\ isInitializingSession' = TRUE
         /\ lastSessionParams' = p
         /\ reconnectionAttempts' = 0
         /\ initCall' = [pc |-> "tools", isReconnection |-> FALSE]
         /\ authHalted' = FALSE
         /\ userClosed' = FALSE
         /\ last' = Obs("connect", [params |-> p], "pending", <<>>)
         /\ openAttempts' = 0
         /\ UNCHANGED <<currentSession, recorderVars, transports, now, toolVars,
                        delayed, audioVars>>

(* initializeGeminiSession after getEnabledTools resolved: getSystemPrompt, then       *)
(* initializeNewSession unless reconnecting, then the call of client.live.connect.     *)

CallLiveConnect ==
    /\ initCall.pc = "tools"
    /\ initCall' = [initCall EXCEPT !.pc = "connect"]
    /\ IF UnlessReconnecting(initCall.isReconnection)
       THEN /\ currentSessionId' = now
            /\ currentTranscription' = <<>>
            /\ conversationHistory' = <<>>
            /\ UNCHANGED messageBuffer
       ELSE UNCHANGED recorderVars
    /\ toolsAtConnect' = IF initCall.isReconnection THEN toolsAtConnect
                         ELSE getEnabledTools(googleSearchEnabled)
    /\ last' = [Obs("toolsResolved", [isReconnection |-> initCall.isReconnection],
                    "pending", <<>>)
                EXCEPT !.data = [tools |-> getEnabledTools(googleSearchEnabled)]]
    /\ UNCHANGED <<currentSession, isInitializingSession, reconnectionAttempts,
                   lastSessionParams, transports, now, googleSearchEnabled,
                   delayed, authHalted, userClosed,
                   audioVars>>

ToolsResolved == CallLiveConnect /\ UNCHANGED openAttempts

\* the same step, with the calls made by reconnection counted
ToolsResolvedCounted ==
    /\ CallLiveConnect
    /\ openAttempts' = IF initCall.isReconnection THEN openAttempts + 1 ELSE openAttempts

(* client.live.connect resolved: onopen ran, initializeGeminiSession clears the flag   *)
(* and returns the session; the caller ('initialize-gemini' or attemptReconnection)    *)
(* stores it as the handle held.  attemptReconnection also resets the counter and      *)
(* replays the context.                                                                *)

ConnectOpened ==
    /\ initCall.pc = "connect"
    /\ FreeTransports # {}
    /\ LET t == NewTransport IN
       /\ transports' = [transports EXCEPT ![t] = "open"]
       /\ currentSession' = t
       /\ isInitializingSession' = FALSE
       /\ initCall' = Idle
       /\ IF initCall.isReconnection
          THEN /\ reconnectionAttempts' = 0
               /\ openAttempts' = 0
               /\ last' = [Obs("reconnected", NoArg, "true", <<StConnected>>)
                           EXCEPT !.sent = sendReconnectionContext(t, conversationHistory)]
          ELSE /\ UNCHANGED <<reconnectionAttempts, openAttempts>>
               /\ last' = Obs("connected", NoArg, "true", <<StConnected>>)
    /\ UNCHANGED <<recorderVars, lastSessionParams, now, toolVars,
                   delayed, authHalted, userClosed,
                   audioVars>>

(* client.live.connect threw: initializeGeminiSession clears the flag and returns      *)
(* null.  'initialize-gemini' returns false; attemptReconnection tries again or gives  *)
(* up.                                                                                 *)

\* the catch of initializeGeminiSession: "this.isInitializingSession = false"
FlagKeptAfterFailure(flag) == flag
FlagAfterFailure(flag) == FALSE

ConnectFailed ==
    /\ initCall.pc = "connect"
    /\ isInitializingSession' = FlagAfterFailure(isInitializingSession)
    /\ initCall' = Idle
    /\ IF initCall.isReconnection
       THEN LET r == retryAfterFailure(lastSessionParams, reconnectionAttempts, delayed) IN
            /\ r.delayed <= MaxDelayed
            /\ reconnectionAttempts' = r.attempts
            /\ delayed' = r.delayed
            /\ last' = Obs("reconnectFailed", NoArg, "false", r.status)
       ELSE /\ UNCHANGED <<reconnectionAttempts, delayed>>
            /\ last' = Obs("connectFailed", NoArg, "false", <<>>)
    /\ UNCHANGED <<currentSession, recorderVars, lastSessionParams, transports, now, toolVars,
                   authHalted, userClosed, openAttempts, audioVars>>

(* attemptReconnection after its delay: the call of initializeGeminiSession with the   *)
(* stored parameters.  Reading this.lastSessionParams.apiKey of null throws, which the *)
(* try block catches; a call rejected by the re-entrancy check returns false; both     *)
(* fall through to "try again".                                                        *)

DelayElapsed ==
    /\ delayed > 0
    /\ IF lastSessionParams = NoParams \/ InitializationInProgress(isInitializingSession)
       THEN LET r == retryAfterFailure(lastSessionParams, reconnectionAttempts, delayed - 1) IN
            /\ reconnectionAttempts' = r.attempts
            /\ delayed' = r.delayed
            /\ last' = Obs("reconnectFailed", NoArg, "false", r.status)
            /\ UNCHANGED <<isInitializingSession, initCall>>
       ELSE /\ delayed' = delayed - 1
            /\ isInitializingSession' = TRUE
            /\ initCall' = [pc |-> "tools", isReconnection |-> TRUE]
            /\ last' = Obs("reconnect", [params |-> lastSessionParams], "pending", <<>>)
            /\ UNCHANGED reconnectionAttempts
    /\ UNCHANGED <<currentSession, recorderVars, lastSessionParams, transports, now, toolVars,
                   authHalted, userClosed, openAttempts, audioVars>>

-----------------------------------------------------------------------------
(* The transport's callbacks.  Every transport was opened with the same closures, so   *)
(* the callbacks of any open transport act on the one service state, whether or not    *)
(* that transport is the handle held.                                                  *)

(* onmessage *)
OnMessage(t, m) ==
    /\ transports[t] = "open"
    /\ LET transcription == currentTranscription \o m.transcription
           response == AppendParts(messageBuffer, m.parts)
           save == m.generationComplete /\ ShouldSaveTurn(transcription, response)
           history == IF save THEN Append(conversationHistory, Turn(transcription, response))
                      ELSE conversationHistory
       IN
       /\ conversationHistory' = history
       /\ currentTranscription' = IF m.generationComplete
                                  THEN TranscriptionAfterFlush(save, transcription)
                                  ELSE transcription
       /\ messageBuffer' = IF m.generationComplete THEN ResponseAfterFlush(response)
                           ELSE response
       /\ last' = [Obs("onMessage", m, "none",
                       IF m.turnComplete THEN <<StListening>> ELSE <<>>)
                   EXCEPT !.response = IF m.generationComplete THEN UpdateResponse(response)
                                       ELSE <<>>,
                          !.saved = IF save
                                    THEN SaveConversationTurnSent(
                                             currentSessionId,
                                             Turn(transcription, response), history)
                                    ELSE <<>>]
    /\ UNCHANGED <<currentSession, currentSessionId, isInitializingSession,
                   reconnectionAttempts, lastSessionParams, transports, now, toolVars,
                   initCall,
                   delayed, authHalted, userClosed, openAttempts, audioVars>>

(* onerror *)
OnError(t, m) ==
    /\ transports[t] = "open"
    /\ IF isApiKeyError(m)
       THEN /\ lastSessionParams' = NoParams
            /\ reconnectionAttempts' = StopReconnectionAttempts(maxReconnectionAttempts)
            /\ authHalted' = TRUE
            /\ last' = Obs("onError", [text |-> m], "none", <<StErrorInvalidKey>>)
       ELSE /\ UNCHANGED <<lastSessionParams, reconnectionAttempts, authHalted>>
            /\ last' = Obs("onError", [text |-> m], "none", <<StError(m)>>)
    /\ UNCHANGED <<currentSession, recorderVars, isInitializingSession, transports, now, toolVars,
                   
                   initCall, delayed, userClosed, openAttempts, audioVars>>

(* onclose: the last callback of a transport, closed by the server ("open") or after   *)
(* the service closed it ("closing").  A non-auth close starts attemptReconnection,    *)
(* which runs up to its delay.                                                         *)
OnClose(t, m) ==
    /\ transports[t] \in {"open", "closing"}
    /\ transports' = [transports EXCEPT ![t] = "none"]
    /\ IF isApiKeyError(m)
       THEN /\ lastSessionParams' = NoParams
            /\ reconnectionAttempts' = StopReconnectionAttempts(maxReconnectionAttempts)
            /\ authHalted' = TRUE
            /\ last' = Obs("onClose", [text |-> m], "none", <<StClosedInvalidKey>>)
            /\ UNCHANGED delayed
       ELSE IF lastSessionParams # NoParams /\ BudgetLeft(reconnectionAttempts)
       THEN LET r == attemptReconnection(lastSessionParams, reconnectionAttempts, delayed) IN
            /\ r.delayed <= MaxDelayed
            /\ reconnectionAttempts' = r.attempts
            /\ delayed' = r.delayed
            /\ last' = Obs("onClose", [text |-> m], "reconnecting", r.status)
            /\ UNCHANGED <<lastSessionParams, authHalted>>
       ELSE /\ last' = Obs("onClose", [text |-> m], "none", <<StSessionClosed>>)
            /\ UNCHANGED <<lastSessionParams, reconnectionAttempts, delayed, authHalted>>
    /\ UNCHANGED <<currentSession, recorderVars, isInitializingSession, now, toolVars,
                   initCall,
                   userClosed, openAttempts, audioVars>>

-----------------------------------------------------------------------------
(* ipcMain 'close-session': stopMacOSAudioCapture, then the stored parameters are     *)
(* cleared, then the handle held is closed and dropped, all in one try block whose     *)
(* catch returns the failure.  killThrows: systemAudioProc.kill throws; closeThrows:   *)
(* currentSession.close throws (the transport may or may not have started closing).    *)
(* The closed transport reports its closure later, through onclose.                    *)

\* 'close-session': this.currentSession = null
HandleKept(handle) == handle
HandleDropped(handle) == 0

CloseSession(killThrows, closeThrows) ==
    /\ killThrows => systemAudioProc = "running"
    /\ closeThrows => (currentSession # 0 /\ ~killThrows)
    /\ LET closing == IF currentSession # 0 /\ transports[currentSession] = "open"
                      THEN [transports EXCEPT ![currentSession] = "closing"]
                      ELSE transports
           attempted == (IF systemAudioProc # "null" THEN {"audio"} ELSE {})
                        \cup (IF currentSession # 0 /\ ~killThrows THEN {"transport"} ELSE {})
           observed(ret) == [Obs("close", [killThrows |-> killThrows,
                                           closeThrows |-> closeThrows], ret, <<>>)
                             EXCEPT !.data = [attempted |-> attempted]]
       IN
       IF killThrows
       THEN /\ last' = observed("failure")
            /\ UNCHANGED <<systemAudioProc, lastSessionParams, userClosed, currentSession,
                           transports>>
       ELSE /\ systemAudioProc' = "null"
            /\ lastSessionParams' = NoParams
            /\ userClosed' = TRUE
            /\ IF closeThrows
               THEN /\ UNCHANGED currentSession
                    /\ transports' \in {transports, closing}
                    /\ last' = observed("failure")
               ELSE /\ currentSession' = HandleDropped(currentSession)
                    /\ transports' = closing
                    /\ last' = observed("success")
    /\ UNCHANGED <<recorderVars, isInitializingSession, reconnectionAttempts, now, toolVars,
                   initCall, delayed, authHalted, openAttempts, captureVars>>

(* ipcMain 'get-current-session' *)
GetCurrentSession ==
    /\ last' = [Obs("getCurrentSession", NoArg, "success", <<>>)
                EXCEPT !.data = [sessionId |-> currentSessionId,
                                 history |-> conversationHistory]]
    /\ UNCHANGED <<currentSession, recorderVars, isInitializingSession,
                   reconnectionAttempts, lastSessionParams, transports, now, toolVars,
                   initCall,
                   delayed, authHalted, userClosed, openAttempts, audioVars>>

(* ipcMain 'start-new-session': initializeNewSession *)
StartNewSession ==
    /\ currentSessionId' = now
    /\ currentTranscription' = <<>>
    /\ conversationHistory' = <<>>
    /\ last' = [Obs("startNewSession", NoArg, "success", <<>>)
                EXCEPT !.data = [sessionId |-> now]]
    /\ UNCHANGED <<currentSession, messageBuffer, isInitializingSession,
                   reconnectionAttempts, lastSessionParams, transports, now, toolVars,
                   initCall,
                   delayed, authHalted, userClosed, openAttempts, audioVars>>

-----------------------------------------------------------------------------
(* ipcMain 'send-audio-content', 'send-image-content', 'send-text-message'.  Each one  *)
(* is refused when no handle is held; otherwise the input is validated and handed to   *)
(* sendRealtimeInput of the handle held.  On an open transport that call delivers; on  *)
(* a handle whose transport is closing or closed the call may throw (throws), which    *)
(* the handler's catch turns into a failure.                                           *)

NoActiveSession == "No active Gemini session"
HandleIsOpen == currentSession # 0 /\ transports[currentSession] = "open"

\* Buffer.from(data, 'base64').length, for a string of `chars` base64 characters
Base64Length(chars) == (chars * 6) \div 8
\* 'send-image-content': the least decoded length accepted
MinImageBytes == 1000
ImageTooSmallOrExact(bytes) == bytes <= MinImageBytes
ImageTooSmall(bytes) == bytes < MinImageBytes

\* 'send-text-message': text.trim().length === 0
IsEmptyText(text) == Len(text) = 0
IsBlankText(text) == Len(Trim(text)) = 0

\* the handler's result: what it returned and the sendRealtimeInput calls it made
Sent(op, arg, ret, calls) == [Obs(op, arg, ret, <<>>) EXCEPT !.sent = calls]

sendFrame == <<currentSession, recorderVars, isInitializingSession, reconnectionAttempts,
               lastSessionParams, transports, now, toolVars, initCall, delayed, authHalted,
               userClosed, openAttempts, audioVars>>

SendAudio(content, throws) ==
    /\ throws => (currentSession # 0 /\ ~HandleIsOpen)
    /\ last' = IF currentSession = 0
               THEN Sent("sendAudio", content, NoActiveSession, <<>>)
               ELSE Sent("sendAudio", content, IF throws THEN "error" ELSE "success",
                         <<[audio |-> content]>>)
    /\ UNCHANGED sendFrame

\* content.data is a string of base64 characters (isString), or anything else
SendImage(content, throws) ==
    /\ throws => (/\ currentSession # 0 /\ ~HandleIsOpen
                  /\ content.isString /\ content.chars > 0
                  /\ ~ImageTooSmall(Base64Length(content.chars)))
    /\ last' = IF currentSession = 0
               THEN Sent("sendImage", content, NoActiveSession, <<>>)
               ELSE IF ~content.isString \/ content.chars = 0
               THEN Sent("sendImage", content, "Invalid image data", <<>>)
               ELSE IF ImageTooSmall(Base64Length(content.chars))
               THEN Sent("sendImage", content, "Image buffer too small", <<>>)
               ELSE Sent("sendImage", content, IF throws THEN "error" ELSE "success",
                         <<[media |-> content, mimeType |-> "image/jpeg"]>>)
    /\ UNCHANGED sendFrame

\* text is a string (isString, with its characters) or anything else
SendText(text, throws) ==
    /\ throws => (/\ currentSession # 0 /\ ~HandleIsOpen
                  /\ text.isString /\ ~IsBlankText(text.chars))
    /\ last' = IF currentSession = 0
               THEN Sent("sendText", text, NoActiveSession, <<>>)
               ELSE IF ~text.isString \/ IsBlankText(text.chars)
               THEN Sent("sendText", text, "Invalid text message", <<>>)
               ELSE Sent("sendText", text, IF throws THEN "error" ELSE "success",
                         <<[text |-> Trim(text.chars)]>>)
    /\ UNCHANGED sendFrame

-----------------------------------------------------------------------------
(* The macOS audio capture: startMacOSAudioCapture spawns SystemAudioDump and reads    *)
(* its stdout; buffers are modelled by their byte lengths.                             *)

SAMPLE_RATE == 24000
BYTES_PER_SAMPLE == 2
CHANNELS == 2
\* SAMPLE_RATE * BYTES_PER_SAMPLE * CHANNELS * CHUNK_DURATION, CHUNK_DURATION being 0.1
CHUNK_SIZE == (SAMPLE_RATE * BYTES_PER_SAMPLE * CHANNELS) \div 10
maxBufferSize == SAMPLE_RATE * BYTES_PER_SAMPLE * 1

\* convertStereoToMono: the length of the buffer it allocates and fills
SameLength(stereoLength) == stereoLength
convertStereoToMono(stereoLength) == (stereoLength \div 4) * 2

\* Buffer.readInt16LE(offset): the signed 16-bit value of two bytes, low byte first
readInt16LE(buffer, offset) ==
    LET unsigned == buffer[offset + 1] + 256 * buffer[offset + 2]
    IN  IF unsigned >= 32768 THEN unsigned - 65536 ELSE unsigned

\* Buffer.writeInt16LE(value, offset): the two bytes written
writeInt16LE(value) ==
    LET unsigned == IF value < 0 THEN value + 65536 ELSE value
    IN  <<unsigned % 256, unsigned \div 256>>

\* convertStereoToMono: the buffer it returns, sample i written from the 16-bit value
\* read at byte 4i of the stereo buffer
RECURSIVE fillMono(_, _, _)
fillMono(stereoBuffer, i, channel) ==
    IF i >= Len(stereoBuffer) \div 4 THEN <<>>
    ELSE writeInt16LE(readInt16LE(stereoBuffer, i * 4 + channel))
         \o fillMono(stereoBuffer, i + 1, channel)

rightSamples(stereoBuffer) == fillMono(stereoBuffer, 0, 2)
monoBuffer(stereoBuffer) == fillMono(stereoBuffer, 0, 0)

\* Buffer.slice(0, n).length and Buffer.slice(n).length of a buffer of `length` bytes
SliceHead(length, n) == IF n <= length THEN n ELSE length
SliceFrom(length, n) == IF n <= length THEN length - n ELSE 0

\* the while loop of the stdout handler: whole chunks are cut off the front, each one
\* converted and handed to sendAudioToGemini
cutOneChunk(length, chunks) ==
    IF length >= CHUNK_SIZE
    THEN [length |-> SliceFrom(length, CHUNK_SIZE),
          chunks |-> Append(chunks, convertStereoToMono(SliceHead(length, CHUNK_SIZE)))]
    ELSE [length |-> length, chunks |-> chunks]
RECURSIVE cutChunks(_, _)
cutChunks(length, chunks) ==
    IF length >= CHUNK_SIZE
    THEN cutChunks(SliceFrom(length, CHUNK_SIZE),
                   Append(chunks, convertStereoToMono(SliceHead(length, CHUNK_SIZE))))
    ELSE [length |-> length, chunks |-> chunks]

audioFrame == <<currentSession, recorderVars, isInitializingSession, reconnectionAttempts,
                lastSessionParams, transports, now, toolVars, initCall, delayed, authHalted,
                userClosed, openAttempts>>

\* Buffer.slice(-n).length, and how far its first byte lies behind the buffer's
SliceLast(length, n) == IF n <= length THEN n ELSE length
SliceLastSkips(length, n) == IF n <= length THEN length - n ELSE 0

\* the while loop again: the i-th pass slices its chunk off the front of what the
\* passes before it left, CHUNK_SIZE bytes each; the chunks by their positions
chunkPositions(from, passes) == [i \in 1..passes |-> from + (i - 1) * CHUNK_SIZE]

\* "if (audioBuffer.length > maxBufferSize) audioBuffer = audioBuffer.slice(-maxBufferSize)"
\* on a buffer of `length` bytes that begins at `from`
DropResidual(from, length) == [from |-> from + length, length |-> 0]
capResidual(from, length) ==
    IF length > maxBufferSize
    THEN [from |-> from + SliceLastSkips(length, maxBufferSize),
          length |-> SliceLast(length, maxBufferSize)]
    ELSE [from |-> from, length |-> length]

\* sendAudioToGemini: the chunks it hands to sendRealtimeInput of the handle held
HandNothing(handle, frames) == <<>>
sendAudioToGemini(handle, frames) == IF handle = 0 THEN <<>> ELSE frames

\* the listeners a process object carries: startMacOSAudioCapture registers them after
\* its check of the pid
Listeners(proc) == IF proc = "running" THEN {"data", "stderr", "close", "error"} ELSE {}

\* EventEmitter.emit('error'): thrown when no listener is registered for it
emitError(listeners) == IF "error" \in listeners THEN "handled" ELSE "uncaught"

\* the result of 'start-macos-audio', with the handle it found and whether it is the
\* first handler to run after the capture exited
Started(outcome, ret) ==
    [Obs("startAudio", [outcome |-> outcome], ret, <<>>)
     EXCEPT !.data = [found |-> systemAudioProc, afterExit |-> last.op = "audioExited"]]

\* killExistingSystemAudioDump, when the process it signals has exited and delivered
\* its 'close' event before the new subprocess is spawned
killExistingSystemAudioDump(earlier) == IF earlier = "running" THEN "none" ELSE earlier

(* ipcMain 'start-macos-audio'.  outcome: the platform is not darwin; the spawn gave   *)
(* no pid (the process object is kept, its 'error' event is still to come); the        *)
(* capture started, with an empty audioBuffer.                                         *)
StartMacOSAudio(outcome) ==
    /\ CASE outcome = "notDarwin" ->
              /\ last' = Started(outcome, "failure")
              /\ UNCHANGED audioVars
         [] outcome = "noPid" ->
              /\ systemAudioProc' = "failed"
              /\ earlierProc' = killExistingSystemAudioDump(earlierProc)
              /\ last' = Started(outcome, "failure")
              /\ UNCHANGED <<audioBuffer, audioFrom, audioReceived, audioForwarded,
                             audioSent>>
         [] outcome = "started" ->
              /\ systemAudioProc' = "running"
              /\ earlierProc' = killExistingSystemAudioDump(earlierProc)
              /\ audioBuffer' = 0
              /\ audioFrom' = 0
              /\ audioReceived' = 0
              /\ audioForwarded' = <<>>
              /\ audioSent' = <<>>
              /\ last' = Started(outcome, "success")
    /\ UNCHANGED audioFrame

(* 'start-macos-audio' while a subprocess of an earlier start is running, held by the  *)
(* handle or not: pkill signals it and exits, the new subprocess is spawned and the    *)
(* 'close' event of the earlier one has not been delivered yet.                        *)
StartMacOSAudioOverEarlier ==
    /\ systemAudioProc = "running" \/ earlierProc = "running"
    /\ earlierProc # "killed"
    /\ systemAudioProc' = "running"
    /\ earlierProc' = "killed"
    /\ audioBuffer' = 0
    /\ audioFrom' = 0
    /\ audioReceived' = 0
    /\ audioForwarded' = <<>>
    /\ audioSent' = <<>>
    /\ last' = Started("started", "success")
    /\ UNCHANGED audioFrame

(* stdout 'data' of the running capture, with `size` bytes.  sendAudioToGemini hands a *)
(* chunk to sendRealtimeInput only while a handle is held; failed: the passes of the   *)
(* loop whose sendRealtimeInput fails, which sendAudioToGemini catches and logs.       *)
AudioData(size, failed) ==
    /\ systemAudioProc = "running"
    /\ LET from == IF audioBuffer = 0 THEN audioReceived ELSE audioFrom
           cut == cutChunks(audioBuffer + size, <<>>)
           frames == chunkPositions(from, Len(cut.chunks))
           handed == sendAudioToGemini(currentSession, frames)
           residual == capResidual(from + Len(cut.chunks) * CHUNK_SIZE, cut.length)
       IN
       /\ failed \subseteq 1..Len(handed)
       /\ failed # {} => ~HandleIsOpen
       /\ audioBuffer' = residual.length
       /\ audioFrom' = residual.from
       /\ audioReceived' = audioReceived + size
       /\ audioForwarded' = audioForwarded \o cut.chunks
       /\ audioSent' = audioSent \o handed
       /\ last' = [Sent("audioData", [size |-> size, failed |-> failed], "none",
                        IF currentSession = 0 THEN <<>>
                        ELSE [i \in 1..Len(cut.chunks) |-> [audio |-> cut.chunks[i]]])
                   EXCEPT !.data = [frames |-> frames, handed |-> handed]]
    /\ UNCHANGED <<systemAudioProc, earlierProc, audioFrame>>

(* 'error' of a process object that was spawned without a pid *)
AudioSpawnError ==
    /\ systemAudioProc = "failed"
    /\ systemAudioProc' = "dead"
    /\ last' = Obs("audioSpawnError", NoArg, emitError(Listeners(systemAudioProc)), <<>>)
    /\ UNCHANGED <<captureVars, audioFrame>>

(* ipcMain 'stop-macos-audio': stopMacOSAudioCapture; killThrows: kill throws *)
StopMacOSAudio(killThrows) ==
    /\ killThrows => systemAudioProc = "running"
    /\ IF killThrows
       THEN /\ last' = Obs("stopAudio", [killThrows |-> killThrows], "failure", <<>>)
            /\ UNCHANGED systemAudioProc
       ELSE /\ systemAudioProc' = "null"
            /\ last' = Obs("stopAudio", [killThrows |-> killThrows], "success", <<>>)
    /\ UNCHANGED <<captureVars, audioFrame>>

(* 'close' or 'error' of the running capture: this.systemAudioProc = null *)
ProcKept(proc) == proc
ProcCleared(proc) == "null"

AudioProcExited ==
    /\ systemAudioProc = "running"
    /\ systemAudioProc' = ProcCleared(systemAudioProc)
    /\ last' = Obs("audioExited", NoArg, "none", <<>>)
    /\ UNCHANGED <<captureVars, audioFrame>>

(* 'close' of the subprocess an earlier start had spawned: its listener assigns        *)
(* this.systemAudioProc = null, whichever process object the field holds by now        *)
AudioEarlierClosed ==
    /\ earlierProc = "killed"
    /\ systemAudioProc' = ProcCleared(systemAudioProc)
    /\ earlierProc' = IF systemAudioProc = "running" THEN "running" ELSE "none"
    /\ last' = [Obs("audioEarlierClosed", NoArg, "none", <<>>)
                EXCEPT !.data = [found |-> systemAudioProc]]
    /\ UNCHANGED <<audioBuffer, audioFrom, audioReceived, audioForwarded, audioSent,
                   audioFrame>>

(* The renderer stores the search setting (localStorage 'googleSearchEnabled') *)
SetGoogleSearchEnabled(value) ==
    /\ googleSearchEnabled' = value
    /\ last' = Obs("setGoogleSearchEnabled", [value |-> value], "none", <<>>)
    /\ UNCHANGED <<currentSession, recorderVars, isInitializingSession,
                   reconnectionAttempts, lastSessionParams, transports, now,
                   toolsAtConnect, initCall, delayed, authHalted, userClosed,
                   openAttempts, audioVars>>

(* convertStereoToMono applied to the stereo buffer at hand *)
ConvertStereoToMono ==
    /\ last.op = "stereoChunk"
    /\ last' = [Obs("convertStereoToMono", last.arg, "none", <<>>)
                EXCEPT !.data = [monoBuffer |-> monoBuffer(last.arg.stereoBuffer)]]
    /\ UNCHANGED <<currentSession, recorderVars, isInitializingSession,
                   reconnectionAttempts, lastSessionParams, transports, now, toolVars,
                   initCall, delayed, authHalted, userClosed, openAttempts, audioVars>>

(* The clock advances *)
Tick ==
    /\ now < MaxClock
    /\ now' = now + 1
    /\ last' = Obs("tick", NoArg, "none", <<>>)
    /\ UNCHANGED <<currentSession, recorderVars, isInitializingSession,
                   reconnectionAttempts, lastSessionParams, transports, toolVars,
                   initCall, delayed, authHalted, userClosed, openAttempts, audioVars>>

-----------------------------------------------------------------------------
(* Specifications.  Each one runs the same service against an environment that is   *)
(* bounded in a different direction.                                                 *)

\* a whole exchange carried by one message
Exchange == [transcription |-> <<"a">>, parts |-> << <<"a">> >>,
             generationComplete |-> TRUE, turnComplete |-> FALSE]

\* Spec: every operation and callback of the session lifecycle, in every interleaving;
\* the traffic is whole exchanges, one auth-failure text and one other text.
Next ==
    \/ \E p \in Params : Connect(p)
    \/ ToolsResolved
    \/ ConnectOpened
    \/ ConnectFailed
    \/ DelayElapsed
    \/ \E t \in TransportIds : OnMessage(t, Exchange) /\ Len(conversationHistory') <= 1
    \/ \E t \in TransportIds, m \in {Txt_unauthorized, Txt_network} : OnError(t, m)
    \/ \E t \in TransportIds, m \in {Txt_unauthorized, Txt_network} : OnClose(t, m)
    \/ CloseSession(FALSE, FALSE)
    \/ GetCurrentSession
    \/ StartNewSession
    \/ Tick

Spec == Init /\ [][Next]_vars

\* SpecRecorder: every message shape, fragment by fragment, on the transport held,
\* of sessions that are started, restarted and read but never closed.
NextRecorder ==
    \/ Connect("key1")
    \/ ToolsResolved
    \/ ConnectOpened
    \/ \E m \in Messages :
          /\ currentSession # 0
          /\ OnMessage(currentSession, m)
          /\ Len(currentTranscription \o m.transcription) <= MaxBuf
          /\ Len(AppendParts(messageBuffer, m.parts)) <= MaxBuf
          /\ Len(conversationHistory') <= MaxTurns
    \/ StartNewSession
    \/ GetCurrentSession

SpecRecorder == Init /\ [][NextRecorder]_vars

\* what the renderer sends
AudioContents == {[data |-> "pcm", mimeType |-> "audio/pcm;rate=24000"]}
ImageContents == {[isString |-> FALSE, chars |-> 0]}
                 \cup {[isString |-> TRUE, chars |-> n] : n \in {0, 668, 1332, 1333, 1334, 2668}}
TextInputs == {[isString |-> FALSE, chars |-> <<>>]}
              \cup {[isString |-> TRUE, chars |-> c] :
                        c \in {<<>>, <<" ">>, <<" ", " ">>, <<"a">>, <<" ", "a", " ">>}}

\* SpecSend: the three send operations with every input, in every state of the
\* lifecycle: before the first connect, while connecting, connected, reconnecting,
\* after close, after the transport closed and after the session failed.
NextSend ==
    \/ Connect("key1")
    \/ ToolsResolved
    \/ ConnectOpened
    \/ ConnectFailed
    \/ DelayElapsed
    \/ \E t \in TransportIds, m \in {Txt_unauthorized, Txt_network} : OnClose(t, m)
    \/ CloseSession(FALSE, FALSE)
    \/ \E c \in AudioContents, throws \in BOOLEAN : SendAudio(c, throws)
    \/ \E c \in ImageContents, throws \in BOOLEAN : SendImage(c, throws)
    \/ \E x \in TextInputs, throws \in BOOLEAN : SendText(x, throws)

SpecSend == Init /\ [][NextSend]_vars

\* the stereo stream arrives in pieces of these sizes; MaxFrames chunks of it in all
MaxFrames == 2
DataSizes == {4800, 9599, 9600, 9601, 19200}

\* SpecAudio: the capture is started, fed, stopped and restarted while a session is
\* connected and closed.
NextAudio ==
    \/ Connect("key1")
    \/ ToolsResolved
    \/ ConnectOpened
    \/ \E outcome \in {"notDarwin", "noPid", "started"} : StartMacOSAudio(outcome)
    \/ \E size \in DataSizes, failed \in SUBSET (1..MaxFrames) :
          /\ audioReceived + size <= MaxFrames * CHUNK_SIZE
          /\ AudioData(size, failed)
    \/ \E killThrows \in BOOLEAN : StopMacOSAudio(killThrows)
    \/ AudioProcExited
    \/ AudioSpawnError
    \/ \E t \in TransportIds : OnClose(t, Txt_unauthorized)
    \/ CloseSession(FALSE, FALSE)

SpecAudio == Init /\ [][NextAudio]_vars

\* SpecCapture: the capture subprocess is spawned (with and without success), fails,
\* exits, is stopped and respawned, beside a session that is connected, used for text
\* and images, and closed.
NextCapture ==
    \/ Connect("key1")
    \/ ToolsResolved
    \/ ConnectOpened
    \/ \E outcome \in {"notDarwin", "noPid", "started"} : StartMacOSAudio(outcome)
    \/ AudioData(CHUNK_SIZE, {}) /\ audioReceived < CHUNK_SIZE
    \/ AudioSpawnError
    \/ AudioProcExited
    \/ StopMacOSAudio(FALSE)
    \/ SendText([isString |-> TRUE, chars |-> <<"a">>], FALSE)
    \/ SendImage([isString |-> TRUE, chars |-> 1334], FALSE)
    \/ CloseSession(FALSE, FALSE)

SpecCapture == Init /\ [][NextCapture]_vars

\* SpecTools: the stored search setting changes at any moment of a session that is
\* connected, loses its transport, reconnects (with and without success) and is closed.
NextTools ==
    \/ Connect("key1")
    \/ ToolsResolved
    \/ ConnectOpened
    \/ ConnectFailed
    \/ DelayElapsed
    \/ \E t \in TransportIds : OnClose(t, Txt_network)
    \/ \E value \in {"true", "false"} : SetGoogleSearchEnabled(value)
    \/ CloseSession(FALSE, FALSE)

SpecTools == Init /\ [][NextTools]_vars

\* stereo buffers of up to MaxSamples interleaved sample pairs, 4 bytes each
MaxSamples == 2
Bytes == {0, 128, 255}
StereoBuffers(samples) == [1..(4 * samples) -> Bytes]

\* SpecDownmix: convertStereoToMono on every stereo buffer of up to MaxSamples pairs
InitDownmix ==
    /\ InitService
    /\ \E samples \in 0..MaxSamples : \E stereoBuffer \in StereoBuffers(samples) :
          last = Obs("stereoChunk", [stereoBuffer |-> stereoBuffer], "none", <<>>)

SpecDownmix == InitDownmix /\ [][ConvertStereoToMono]_vars

\* SpecClose: close() in every state of the lifecycle, with and without a capture
\* running; both of its releases may fail.
NextClose ==
    \/ Connect("key1")
    \/ ToolsResolved
    \/ ConnectOpened
    \/ ConnectFailed
    \/ DelayElapsed
    \/ \E t \in TransportIds, m \in {Txt_unauthorized, Txt_network} : OnClose(t, m)
    \/ StartMacOSAudio("started")
    \/ AudioProcExited
    \/ \E killThrows, closeThrows \in BOOLEAN : CloseSession(killThrows, closeThrows)

SpecClose == Init /\ [][NextClose]_vars

\* no transport is open or closing, no initialization and no reconnection is under way
Quiet ==
    /\ \A t \in TransportIds : transports[t] = "none"
    /\ initCall = Idle
    /\ delayed = 0

\* SpecRetry: one connection at a time, whose transport is closed by the server and
\* whose every reconnection attempt fails; the attempts are counted.
NextRetry ==
    \/ Quiet /\ Connect("key1")
    \/ ToolsResolvedCounted
    \/ ~initCall.isReconnection /\ ConnectOpened
    \/ ConnectFailed
    \/ DelayElapsed
    \/ \E t \in TransportIds : OnClose(t, Txt_network)
    \/ \E t \in TransportIds : OnMessage(t, Exchange) /\ Len(conversationHistory') <= 1
    \/ GetCurrentSession
    \/ StartNewSession
    \/ Tick

SpecRetry == Init /\ [][NextRetry]_vars

\* whole exchanges whose transcriptions differ, one of them blank
Exchanges == {[transcription |-> c, parts |-> << <<"r">> >>,
               generationComplete |-> TRUE, turnComplete |-> FALSE] :
                  c \in {<<"a">>, <<"b">>, <<" ">>}}

\* SpecSession: histories of several turns, built by exchanges on the transport held,
\* through reconnection (successful and failed), close, session starts and sends.
NextSession ==
    \/ Connect("key1")
    \/ ToolsResolved
    \/ ConnectOpened
    \/ ConnectFailed
    \/ DelayElapsed
    \/ \E m \in Exchanges :
          /\ currentSession # 0
          /\ OnMessage(currentSession, m)
          /\ Len(conversationHistory') <= MaxTurns + 1
    \/ \E t \in TransportIds : OnClose(t, Txt_network)
    \/ CloseSession(FALSE, FALSE)
    \/ StartNewSession
    \/ SendText([isString |-> TRUE, chars |-> <<"a">>], FALSE)

SpecSession == Init /\ [][NextSession]_vars

\* SpecClassify: every text of Reasons as the message of onerror and the reason of
\* onclose, through connection, reconnection and close.
NextClassify ==
    \/ Connect("key1")
    \/ ToolsResolved
    \/ ConnectOpened
    \/ ConnectFailed
    \/ DelayElapsed
    \/ \E t \in TransportIds, m \in Reasons : OnError(t, m)
    \/ \E t \in TransportIds, m \in Reasons : OnClose(t, m)
    \/ CloseSession(FALSE, FALSE)

SpecClassify == Init /\ [][NextClassify]_vars

-----------------------------------------------------------------------------
(* Claims about the flush of the pending buffers (SpecRecorder) *)

\* the step is an onmessage whose message signals "generation complete"
FlushStep == last'.op = "onMessage" /\ last'.arg.generationComplete
\* the buffers as accumulated at the moment of that flush
FlushTranscription == currentTranscription \o last'.arg.transcription
FlushResponse == AppendParts(messageBuffer, last'.arg.parts)
TurnAppended ==
    /\ Len(conversationHistory') = Len(conversationHistory) + 1
    /\ SubSeq(conversationHistory', 1, Len(conversationHistory)) = conversationHistory

\* C1: at every "generation complete" flush, a Turn is appended to the history if and
\* only if both accumulated buffers, transcription and response, are non-empty at the
\* moment of the flush; otherwise the history is left as it was.
C1_TurnIffBothNonEmpty ==
    [][FlushStep =>
         /\ TurnAppended <=> (FlushTranscription # <<>> /\ FlushResponse # <<>>)
         /\ TurnAppended \/ conversationHistory' = conversationHistory]_vars

\* C1 witness: a flush appended a turn from buffers filled by earlier fragments
C1_Witness ==
    /\ last.op = "onMessage" /\ last.arg.generationComplete
    /\ last.arg.transcription = <<>> /\ last.arg.parts = <<>>
    /\ Len(last.saved) = 1
    /\ conversationHistory # <<>>

\* C2 as claimed: after every "generation complete" flush both pending buffers are
\* empty, whether or not a Turn was appended.
C2_BothBuffersEmptyAfterFlush ==
    [][FlushStep => (currentTranscription' = <<>> /\ messageBuffer' = <<>>)]_vars

\* C2 as amended: after every "generation complete" flush the pending response buffer
\* is empty; the pending transcription buffer is empty if the flush appended a Turn
\* and otherwise keeps the transcription accumulated so far.
C2_BuffersAfterFlush ==
    [][FlushStep =>
         /\ messageBuffer' = <<>>
         /\ TurnAppended => currentTranscription' = <<>>
         /\ ~TurnAppended => currentTranscription' = FlushTranscription]_vars

\* C2 witness: a flush that appended no turn left a transcription pending
C2_Witness ==
    /\ last.op = "onMessage" /\ last.arg.generationComplete
    /\ last.saved = <<>>
    /\ currentTranscription # <<>>
    /\ messageBuffer = <<>>

-----------------------------------------------------------------------------
(* Claims about the reconnection budget (Spec) *)

\* C3: in every reachable state, whatever the interleaving of connect, close, the
\* transport callbacks and the reconnection procedures in flight, the reconnection
\* attempts counter is at least 0 and at most maxReconnectionAttempts (3).
C3_AttemptsWithinBudget ==
    reconnectionAttempts \in 0..maxReconnectionAttempts

\* C3 witness: the budget is spent by reconnection procedures (no auth failure), with
\* one procedure waiting out its delay while another one is opening a transport
C3_Witness ==
    /\ reconnectionAttempts = maxReconnectionAttempts
    /\ ~authHalted
    /\ delayed >= 1
    /\ initCall.pc # "idle" /\ initCall.isReconnection

\* the step sets the attempts counter back to 0
AttemptsResetStep == reconnectionAttempts # 0 /\ reconnectionAttempts' = 0

\* C4 as claimed: the attempts counter is set back to 0 only by a successful
\* reconnection; no other operation or callback, connect included, resets it.
C4_ResetOnlyByReconnection ==
    [][AttemptsResetStep => last'.op = "reconnected"]_vars

\* C4 as amended: the attempts counter is set back to 0 only by a successful
\* reconnection or by an accepted explicit connect(); no other operation or callback
\* (a rejected connect, close, onError, onClose, onMessage, a failed attempt) resets it.
C4_ResetOnlyByReconnectionOrConnect ==
    [][AttemptsResetStep =>
         \/ last'.op = "reconnected"
         \/ last'.op = "connect" /\ last'.ret = "pending"]_vars

\* C4 witness: a reconnection has just succeeded and the counter is 0
C4_Witness ==
    /\ last.op = "reconnected"
    /\ reconnectionAttempts = 0
    /\ currentSession # 0 /\ transports[currentSession] = "open"

-----------------------------------------------------------------------------
(* Claims about what stops reconnection (Spec) *)

\* the step is an onerror or onclose whose text the service classified as an auth failure
AuthFailureStep ==
    /\ last'.op \in {"onError", "onClose"}
    /\ last'.status \in {<<StErrorInvalidKey>>, <<StClosedInvalidKey>>}

\* the step is a reconnection attempt calling client.live.connect
ReconnectionOpensTransport ==
    initCall.isReconnection /\ initCall.pc = "tools" /\ initCall'.pc = "connect"

\* C5: an onError or onClose classified as an auth failure clears the
\* ReconnectionContext and spends the budget, and from then on, until a new explicit
\* connect(), no reconnection attempt opens a transport.
C5_NoReconnectionAfterAuthFailure ==
    [][/\ AuthFailureStep =>
             /\ lastSessionParams' = NoParams
             /\ reconnectionAttempts' = maxReconnectionAttempts
       /\ authHalted => ~ReconnectionOpensTransport]_vars

\* C7: once close() has run, until a new explicit connect(), no reconnection attempt
\* is started and no reconnection makes a transport the active one, also when the
\* reconnection procedure was in progress when close() was called.
C7_CloseCancelsReconnection ==
    [][userClosed => last'.op \notin {"reconnect", "reconnected"}]_vars

\* C8: at every moment every open transport is the one held as the active handle, so
\* at most one transport is open.
C8_OnlyTheActiveTransportIsOpen ==
    \A t \in TransportIds : transports[t] = "open" => currentSession = t

-----------------------------------------------------------------------------
(* Claims about connect (Spec) *)

\* C9: a connect() received while an initialization is in progress returns false and
\* changes nothing: context, attempts counter, session id, history, pending buffers,
\* handle and transports, the flag and the call in progress are as before, and no
\* call is queued.
C9_ConnectInProgressRejected ==
    [][(last'.op = "connect" /\ isInitializingSession) =>
         /\ last'.ret = "false"
         /\ UNCHANGED <<currentSession, recorderVars, isInitializingSession,
                        reconnectionAttempts, lastSessionParams, transports, initCall,
                        delayed>>]_vars

\* C9 witness: a connect was rejected while the first one was still in progress, and
\* the context still holds the parameters of the first
C9_Witness ==
    /\ last.op = "connect" /\ last.ret = "false"
    /\ isInitializingSession
    /\ initCall.pc # "idle"
    /\ lastSessionParams # NoParams /\ lastSessionParams # last.arg.params

\* the step is the acceptance of a connect()
ConnectAcceptedStep == last'.op = "connect" /\ last'.ret = "pending"
\* the step is the one in which an accepted connect() starts its session, right before
\* it calls client.live.connect
SessionStartStep == last'.op = "toolsResolved" /\ ~last'.arg.isReconnection

\* what an accepted connect() does, but for the id of its session
ConnectStoresAndStartsSession ==
    /\ ConnectAcceptedStep =>
          /\ lastSessionParams' = last'.arg.params
          /\ reconnectionAttempts' = 0
          /\ transports' = transports
    /\ SessionStartStep =>
          /\ conversationHistory' = <<>>
          /\ transports' = transports /\ currentSession' = currentSession
    /\ last'.op = "connected" => initCall.pc = "connect"
    /\ last'.op = "getCurrentSession" =>
          last'.data = [sessionId |-> currentSessionId', history |-> conversationHistory']

\* C10 as claimed: every accepted connect() stores the given parameters as the
\* ReconnectionContext with attempts = 0 and, before its transport is opened, starts a
\* new Session with a new id and an empty history, which is what getCurrentSession
\* shows from then on.
C10_ConnectStartsSessionWithNewId ==
    [][/\ ConnectStoresAndStartsSession
       /\ SessionStartStep =>
             (currentSessionId' = now /\ currentSessionId' # currentSessionId)]_vars

\* C10 but for the freshness of the id: every accepted connect() stores the given parameters as the
\* ReconnectionContext with attempts = 0 and, before its transport is opened, starts a
\* Session with an empty history whose id is the current time in milliseconds (the
\* same id as before when the clock has not advanced since that id was taken), which
\* is what getCurrentSession shows from then on.
C10_ConnectStartsSession ==
    [][/\ ConnectStoresAndStartsSession
       /\ SessionStartStep => currentSessionId' = now]_vars

\* C10 witness: a second connect() has just started its session at a later time: the
\* id is the new time, the history is empty, the first transport is still the handle
C10_Witness ==
    /\ last.op = "toolsResolved" /\ ~last.arg.isReconnection
    /\ currentSession # 0
    /\ currentSessionId = now /\ now > 0
    /\ conversationHistory = <<>>

-----------------------------------------------------------------------------
(* Claims about the classification of auth failures (SpecClassify) *)

\* the last callback was an onerror or onclose
ClassifyingCallback == last.op \in {"onError", "onClose"}
\* ... and it treated its text as an auth failure
ClassifiedAsAuthFailure ==
    /\ last.status = <<IF last.op = "onError" THEN StErrorInvalidKey ELSE StClosedInvalidKey>>
    /\ lastSessionParams = NoParams
    /\ reconnectionAttempts = maxReconnectionAttempts

\* the patterns as the claim lists them, and as the source writes them
PatternsLowerCase == {Txt_apikeynotvalid, Txt_invalidapikey, Txt_authenticationfailed,
                      Txt_unauthorized}
PatternsAsWritten == {Txt_APIkeynotvalid, Txt_invalidAPIkey, Txt_authenticationfailed,
                      Txt_unauthorized}

\* C6 as claimed: a text is classified as an auth failure iff, ignoring letter case, it
\* contains one of "api key not valid", "invalid api key", "authentication failed",
\* "unauthorized".
C6_CaseInsensitiveClassification ==
    ClassifyingCallback =>
        (ClassifiedAsAuthFailure <=>
            \E p \in PatternsLowerCase : Includes(ToLowerCase(last.arg.text), p))

\* C6 as amended: a text is classified as an auth failure iff it contains, with this
\* exact letter case, one of "API key not valid", "invalid API key",
\* "authentication failed", "unauthorized" (so "API key not valid" is classified and
\* "Unauthorized" is not).
C6_CaseSensitiveClassification ==
    ClassifyingCallback =>
        (ClassifiedAsAuthFailure <=>
            \E p \in PatternsAsWritten : Includes(last.arg.text, p))

\* C6 witness: an onerror with "API key not valid" was classified as an auth failure
\* while a reconnection budget remained
C6_Witness ==
    /\ last.op = "onError"
    /\ last.arg.text = Txt_APIkeynotvalid
    /\ last.status = <<StErrorInvalidKey>>
    /\ lastSessionParams = NoParams

-----------------------------------------------------------------------------
(* Claims about the send operations (SpecSend) *)

\* the step is one of the three send operations
SendStep == last'.op \in {"sendAudio", "sendImage", "sendText"}
\* the session is Connected: the handle held is an open transport and no
\* initialization is in progress
StateConnected == HandleIsOpen /\ ~isInitializingSession

\* C11: whenever the session is not Connected (before the first connect, while
\* connecting or reconnecting, after close(), after the transport closed or the
\* session failed), sendAudio, sendImage and sendText return the NotConnected failure
\* and make no call on the transport.
C11_SendRequiresConnected ==
    [][(SendStep /\ ~StateConnected) =>
          (last'.ret = NoActiveSession /\ last'.sent = <<>>)]_vars

\* the decoded length of an image payload: three bytes for every four characters
DecodedBytes(content) == (3 * content.chars) \div 4

\* C12 as claimed: while Connected, sendImage with a decoded payload shorter than 1000
\* bytes returns "Image buffer too small" and sends nothing, and with 1000 bytes or
\* more is sent exactly once and returns success.
C12_SmallImagesAreTooSmall ==
    [][(last'.op = "sendImage" /\ HandleIsOpen /\ last'.arg.isString) =>
          IF DecodedBytes(last'.arg) < 1000
          THEN last'.ret = "Image buffer too small" /\ last'.sent = <<>>
          ELSE last'.ret = "success" /\ Len(last'.sent) = 1]_vars

\* C12 as amended: while Connected, sendImage with a payload that is empty or not a
\* string returns "Invalid image data" and sends nothing; with a non-empty payload
\* decoding to fewer than 1000 bytes it returns "Image buffer too small" and sends
\* nothing; with 1000 bytes or more it is sent exactly once and returns success.
C12_ImageThreshold ==
    [][(last'.op = "sendImage" /\ HandleIsOpen) =>
          IF ~last'.arg.isString \/ last'.arg.chars = 0
          THEN last'.ret = "Invalid image data" /\ last'.sent = <<>>
          ELSE IF DecodedBytes(last'.arg) < 1000
          THEN last'.ret = "Image buffer too small" /\ last'.sent = <<>>
          ELSE /\ last'.ret = "success"
               /\ last'.sent = <<[media |-> last'.arg, mimeType |-> "image/jpeg"]>>]_vars

\* C12 witness: an image of exactly 1000 decoded bytes was sent on the open transport
C12_Witness ==
    /\ last.op = "sendImage" /\ HandleIsOpen
    /\ DecodedBytes(last.arg) = 1000
    /\ last.ret = "success" /\ Len(last.sent) = 1

\* a text made of nothing but spaces (the empty text included)
OnlySpaces(chars) == \A i \in 1..Len(chars) : chars[i] = " "

\* C13: while Connected, sendText with an empty or whitespace-only text returns a
\* structured failure and sends nothing; any other text is sent exactly once and
\* returns success.
C13_BlankTextRejected ==
    [][(last'.op = "sendText" /\ HandleIsOpen /\ last'.arg.isString) =>
          IF OnlySpaces(last'.arg.chars)
          THEN last'.ret = "Invalid text message" /\ last'.sent = <<>>
          ELSE last'.ret = "success" /\ Len(last'.sent) = 1]_vars

\* C13 witness: a whitespace-only text was refused on the open transport
C13_Witness ==
    /\ last.op = "sendText" /\ HandleIsOpen
    /\ last.arg.isString /\ last.arg.chars = <<" ", " ">>
    /\ last.ret = "Invalid text message" /\ last.sent = <<>>

-----------------------------------------------------------------------------
(* Claims about close() (SpecClose) and the audio capture (SpecAudio) *)

\* the step is a close() in which neither release throws
CloseStep == last'.op = "close" /\ ~last'.arg.killThrows /\ ~last'.arg.closeThrows

\* C14: close() is idempotent: every close() returns success and leaves the
\* ReconnectionContext none, no transport held and no capture running, and a close()
\* that directly follows a close() changes nothing.
C14_CloseIsIdempotent ==
    [][CloseStep =>
          /\ last'.ret = "success"
          /\ lastSessionParams' = NoParams
          /\ currentSession' = 0
          /\ systemAudioProc' = "null"
          /\ \A t \in TransportIds : transports'[t] = "open" => transports[t] = "open"
          /\ (last.op = "close" /\ last.ret = "success") =>
                UNCHANGED <<currentSession, recorderVars, isInitializingSession,
                            reconnectionAttempts, lastSessionParams, transports, now,
                            initCall, delayed, authHalted, userClosed, openAttempts,
                            audioVars>>]_vars

\* C14 witness: a close() that had nothing left to release returned success while the
\* transport released by an earlier close() was still closing
C14_Witness ==
    /\ last.op = "close" /\ last.ret = "success"
    /\ last.data.attempted = {}
    /\ currentSession = 0 /\ lastSessionParams = NoParams
    /\ \E t \in TransportIds : transports[t] = "closing"

\* C15: on close(), the release of the audio subprocess and the release of the
\* transport are attempted independently: whichever of them exists is attempted even
\* if the other one's release fails, and the ReconnectionContext is cleared.
C15_ReleasesAreIndependent ==
    [][last'.op = "close" =>
          /\ lastSessionParams' = NoParams
          /\ systemAudioProc # "null" => "audio" \in last'.data.attempted
          /\ currentSession # 0 => "transport" \in last'.data.attempted]_vars

\* C20: however the stereo stream is split into data events, every chunk forwarded is
\* 4800 bytes long, half of the 9600 bytes it was cut from, and once N x 9600 bytes
\* have arrived exactly N chunks have been forwarded.
C20_OneMonoFramePerStereoFrame ==
    /\ \A i \in 1..Len(audioForwarded) :
          audioForwarded[i] = 4800 /\ 2 * audioForwarded[i] = 9600
    /\ audioReceived % 9600 = 0 =>
          (Len(audioForwarded) = audioReceived \div 9600 /\ audioBuffer = 0)

\* C20 witness: two frames' worth arrived in pieces that are not whole frames, and two
\* chunks were forwarded
C20_Witness ==
    /\ last.op = "audioData" /\ last.arg.size = 9601
    /\ audioReceived = 2 * 9600
    /\ Len(audioForwarded) = 2

-----------------------------------------------------------------------------
(* Claims about a reconnection whose attempts all fail (SpecRetry) *)

\* an initializeGeminiSession call of the reconnection is waiting to call
\* client.live.connect
AttemptPending == IF initCall.isReconnection /\ initCall.pc = "tools" THEN 1 ELSE 0

\* C16: when the transport closes with a non-auth reason while a ReconnectionContext
\* exists and attempts = 0, and every reconnection attempt fails, exactly 3
\* transport-open attempts are made, each one out of its own delay; the attempt fails
\* silently twice and the third failure emits the one "Session closed" status, after
\* which nothing is waiting and no further attempt follows.
C16_ThreeAttemptsThenSessionClosed ==
    /\ [](/\ openAttempts <= 3
          /\ openAttempts + AttemptPending + delayed = reconnectionAttempts
          /\ last.op = "reconnectFailed" =>
                IF openAttempts = 3
                THEN last.status = <<StSessionClosed>> /\ delayed = 0 /\ initCall = Idle
                ELSE last.status = <<>> /\ delayed = 1
          /\ StSessionClosed \in {last.status[i] : i \in 1..Len(last.status)} =>
                (last.op = "reconnectFailed" /\ openAttempts = 3))
    /\ [][(openAttempts = 3 /\ AttemptPending = 0 /\ initCall = Idle) =>
             (/\ last'.op \notin {"reconnect", "reconnectFailed", "reconnected"}
              /\ delayed' = 0)]_vars

\* C16 witness: the third attempt has failed and "Session closed" was emitted
C16_Witness ==
    /\ last.op = "reconnectFailed"
    /\ last.status = <<StSessionClosed>>
    /\ openAttempts = 3 /\ reconnectionAttempts = 3
    /\ delayed = 0

-----------------------------------------------------------------------------
(* Claims about the session across reconnection (SpecSession) *)

\* the step belongs to the reconnection procedure: the onclose that starts it, the
\* start of an attempt after the delay, its call of client.live.connect, its success
\* or its failure
ReconnectionStep ==
    \/ last'.op \in {"reconnect", "reconnected", "reconnectFailed"}
    \/ last'.op = "toolsResolved" /\ last'.arg.isReconnection
    \/ last'.op = "onClose" /\ last'.ret = "reconnecting"

\* C17: a reconnection, successful or failed, leaves the session id and the history
\* exactly as they were: no step of it starts a new session or changes a turn.
C17_ReconnectionKeepsSession ==
    [][ReconnectionStep => UNCHANGED <<currentSessionId, conversationHistory>>]_vars

\* C17 witness: a reconnection has succeeded with two turns in the history
C17_Witness ==
    /\ last.op = "reconnected"
    /\ Len(conversationHistory) = 2
    /\ HandleIsOpen

\* the transcriptions of the history that are not blank, oldest first
NonBlankTranscriptions ==
    SelectSeq([i \in 1..Len(conversationHistory) |-> conversationHistory[i].transcription],
              LAMBDA c : ~OnlySpaces(c))
\* texts written one per line
RECURSIVE Lines(_)
Lines(texts) ==
    IF Len(texts) = 1 THEN texts[1]
    ELSE Lines(SubSeq(texts, 1, Len(texts) - 1)) \o <<"\n">> \o texts[Len(texts)]

\* C18: after every successful reconnection, if the history holds a non-blank
\* transcription exactly one text message is sent on the new transport, made of the
\* instruction followed by every non-blank transcription once, oldest first; if it
\* holds none, nothing is sent.
C18_ContextReplayedOnce ==
    last.op = "reconnected" =>
        IF NonBlankTranscriptions = <<>>
        THEN last.sent = <<>>
        ELSE /\ Len(last.sent) = 1
             /\ last.sent[1].to = currentSession /\ HandleIsOpen
             /\ last.sent[1].kind = "text"
             /\ last.sent[1].text = ContextPrefix \o Lines(NonBlankTranscriptions)

\* C18 witness: the replay after a reconnection carries "b" then "a", the order of the
\* history
C18_Witness ==
    /\ last.op = "reconnected"
    /\ Len(conversationHistory) = 2
    /\ conversationHistory[1].transcription = <<"b">>
    /\ conversationHistory[2].transcription = <<"a">>
    /\ last.sent[1].text = ContextPrefix \o <<"b", "\n", "a">>

\* the step starts a session: an accepted connect's initializeNewSession, or
\* start-new-session
StartsSession == SessionStartStep \/ last'.op = "startNewSession"

\* C19: within one session the history is append-only: at every step that does not
\* start a session, the history before the step is a prefix of the history after it.
C19_HistoryIsAppendOnly ==
    [][StartsSession \/
       (/\ Len(conversationHistory) <= Len(conversationHistory')
        /\ SubSeq(conversationHistory', 1, Len(conversationHistory)) = conversationHistory)]_vars

\* C19 witness: a second turn was appended behind a different first one, while a
\* reconnection was waiting out its delay
C19_Witness ==
    /\ last.op = "onMessage" /\ last.saved # <<>>
    /\ Len(conversationHistory) = 2
    /\ conversationHistory[1].transcription # conversationHistory[2].transcription
    /\ delayed > 0

-----------------------------------------------------------------------------
(* Claims about the order of the audio frames (SpecAudio) *)

\* the step is a stdout 'data' event of the capture
AudioDataStep == last'.op = "audioData"
\* the whole frames of the stream between two positions, each by its position
FramesBetween(received, receivedAfter) ==
    [i \in 1..((receivedAfter \div CHUNK_SIZE) - (received \div CHUNK_SIZE)) |->
        ((received \div CHUNK_SIZE) + i - 1) * CHUNK_SIZE]

\* C21 as claimed: the frames handed to the transport are the captured frames, in
\* capture order, each one once and none skipped: at every moment they are the whole
\* frames of the stream received so far.
C21_EveryFrameHandedInOrder ==
    audioSent = FramesBetween(0, audioReceived)

\* C21 as amended: the frames handed to the transport are captured frames in strictly
\* increasing capture order (so none twice); every data event cuts the next whole
\* frames of the stream, none skipped, and while a transport handle is held hands all
\* of them over, whether or not the delivery of an earlier one failed; frames cut
\* while no handle is held are dropped and never handed over later.
C21_FramesHandedInOrder ==
    /\ [](/\ \A i \in 1..Len(audioSent) :
                /\ audioSent[i] % CHUNK_SIZE = 0
                /\ audioSent[i] + CHUNK_SIZE <= audioReceived
          /\ \A i, j \in 1..Len(audioSent) : i < j => audioSent[i] < audioSent[j])
    /\ [][AudioDataStep =>
             /\ last'.data.frames = FramesBetween(audioReceived, audioReceived')
             /\ audioSent' = audioSent \o (IF currentSession # 0 THEN last'.data.frames
                                           ELSE <<>>)]_vars

\* C21 witness: one data event brought two frames; the delivery of the first failed
\* and the second was handed over all the same
C21_Witness ==
    /\ last.op = "audioData"
    /\ last.arg.failed = {1}
    /\ last.data.handed = <<0, CHUNK_SIZE>>
    /\ audioSent = <<0, CHUNK_SIZE>>

-----------------------------------------------------------------------------
(* Claims about the capture subprocess (SpecCapture) *)

\* C22: when the spawn gives no process id, start() returns false without throwing,
\* no failure escapes afterwards, the 'error' event of the process object included,
\* and text and images sent on the open transport go through as before.
C22_SpawnFailureIsContained ==
    /\ (last.op = "startAudio" /\ last.arg.outcome = "noPid") => last.ret = "failure"
    /\ last.ret # "uncaught"
    /\ (last.op \in {"sendText", "sendImage"} /\ HandleIsOpen) =>
          (last.ret = "success" /\ Len(last.sent) = 1)

\* C22 witness: after a spawn without a pid, and the 'error' event of its process
\* object, a text was sent on the open transport
C22_Witness ==
    /\ systemAudioProc = "dead"
    /\ last.op = "sendText" /\ last.ret = "success"

-----------------------------------------------------------------------------
(* Claims about the tool configuration (SpecTools) *)

\* the step is a call of client.live.connect
LiveConnectStep == last'.op = "toolsResolved"

\* C23: every transport of a session is opened with the tools resolved at the last
\* explicit connect(), the transports opened by automatic reconnection included,
\* whatever happened to the stored search setting since.
C23_ToolsFixedAtConnect ==
    [][LiveConnectStep => last'.data.tools = toolsAtConnect']_vars

-----------------------------------------------------------------------------
(* Claims about the end of the reconnection budget (Spec) *)

\* the budget is spent and no reconnection procedure is in flight
Exhausted ==
    /\ reconnectionAttempts = maxReconnectionAttempts
    /\ delayed = 0
    /\ initCall = Idle

\* the transports open after the step were open before it
NoTransportOpened == \A t \in TransportIds : transports'[t] = "open" => transports[t] = "open"

-----------------------------------------------------------------------------
(* Claims about onclose (SpecClassify) *)

\* the step is an onclose whose reason is not classified as an auth failure
PlainCloseStep == last'.op = "onClose" /\ ~isApiKeyError(last'.arg.text)

\* C25: an onclose whose reason is not an auth failure starts the reconnection
\* procedure (the counter is incremented, the procedure waits out its delay, no status
\* is emitted) if and only if a ReconnectionContext is stored and the counter is below
\* maxReconnectionAttempts at that moment; otherwise it starts nothing and emits the
\* status "Session closed" exactly once.
C25_PlainCloseReconnectsIffBudget ==
    [][PlainCloseStep =>
          IF lastSessionParams # NoParams /\ reconnectionAttempts < maxReconnectionAttempts
          THEN /\ delayed' = delayed + 1
               /\ reconnectionAttempts' = reconnectionAttempts + 1
               /\ last'.status = <<>>
          ELSE /\ delayed' = delayed
               /\ reconnectionAttempts' = reconnectionAttempts
               /\ last'.status = <<StSessionClosed>>]_vars

\* C25 witness: a close whose reason reads "Unauthorized" found the counter at 2 and
\* started the last reconnection the budget allows
C25_Witness ==
    /\ last.op = "onClose" /\ last.arg.text = Txt_Unauthorized
    /\ last.ret = "reconnecting"
    /\ reconnectionAttempts = maxReconnectionAttempts
    /\ delayed = 1

-----------------------------------------------------------------------------
(* Claims about what a flush emits and stores (SpecRecorder) *)

\* C26 as claimed: a "generation complete" flush emits the accumulated response
\* upward exactly when it appends a Turn; a flush that appends no Turn emits no
\* response event.
C26_ResponseEmittedIffTurn ==
    [][FlushStep => (last'.response # <<>> <=> TurnAppended)]_vars

\* C26 as amended: every "generation complete" flush emits the accumulated response
\* upward exactly once, empty or not, whether or not it appends a Turn; a message
\* without that signal emits no response event.
C26_ResponseEmittedAtEveryFlush ==
    [][last'.op = "onMessage" =>
          last'.response = IF FlushStep THEN <<FlushResponse>> ELSE <<>>]_vars

\* C26 witness: a flush with no transcription pending appended no Turn and emitted
\* the response it had accumulated
C26_Witness ==
    /\ last.op = "onMessage" /\ last.arg.generationComplete
    /\ last.saved = <<>>
    /\ currentTranscription = <<>>
    /\ last.response = << <<"a">> >>

\* C27: every Turn stored in the history has a non-empty transcription and a
\* non-empty response, whatever the fragments were, fragments of whitespace included.
C27_TurnsHaveBothFields ==
    \A i \in 1..Len(conversationHistory) :
        /\ conversationHistory[i].transcription # <<>>
        /\ conversationHistory[i].ai_response # <<>>

\* C27 witness: a Turn was stored from a transcription of one space
C27_Witness ==
    /\ last.op = "onMessage" /\ Len(last.saved) = 1
    /\ Len(conversationHistory) = 1
    /\ conversationHistory[1].transcription = <<>>
    /\ conversationHistory[1].ai_response = <<"a">>

-----------------------------------------------------------------------------
(* Claims about the residual audio buffer (SpecAudio) *)

\* one second's worth of bytes, as the capture counts it
OneSecond == SAMPLE_RATE * BYTES_PER_SAMPLE
\* the bytes a data event leaves unframed, before the cap is applied
Unframed == audioBuffer + last'.arg.size - CHUNK_SIZE * Len(last'.data.frames)

\* C28: after every stdout data event the residual buffer holds at most one second's
\* worth of bytes, and they are the most recent bytes received; a data event keeps
\* what it leaves unframed, but for the oldest bytes beyond one second's worth.
C28_ResidualWithinOneSecond ==
    /\ [](/\ audioBuffer <= OneSecond
          /\ audioFrom + audioBuffer = audioReceived)
    /\ [][AudioDataStep =>
             /\ audioBuffer' = IF Unframed > OneSecond THEN OneSecond ELSE Unframed
             /\ audioFrom' = audioReceived' - audioBuffer']_vars

\* C28 witness: a data event left the most bytes it can leave unframed, one byte less
\* than a chunk, behind the chunk it cut
C28_Witness ==
    /\ last.op = "audioData"
    /\ Len(last.data.frames) = 1
    /\ audioBuffer = CHUNK_SIZE - 1
    /\ audioFrom = CHUNK_SIZE

-----------------------------------------------------------------------------
(* Claims about the downmix (SpecDownmix) *)

\* C29: the downmix keeps the left channel only: for every stereo buffer, the bytes
\* 2i and 2i+1 of the mono buffer are the bytes 4i and 4i+1 of the stereo buffer (the
\* left sample of the i-th pair), so the same 16-bit sample, and the mono buffer holds
\* nothing else: the right samples have no influence.
C29_DownmixKeepsLeftChannel ==
    last.op = "convertStereoToMono" =>
        LET stereo == last.arg.stereoBuffer
            mono == last.data.monoBuffer
        IN  /\ Len(mono) = 2 * (Len(stereo) \div 4)
            /\ \A i \in 0..((Len(stereo) \div 4) - 1) :
                  /\ mono[2 * i + 1] = stereo[4 * i + 1]
                  /\ mono[2 * i + 2] = stereo[4 * i + 2]
                  /\ readInt16LE(mono, 2 * i) = readInt16LE(stereo, 4 * i)

\* C29 witness: two sample pairs whose left samples are negative and whose right
\* samples differ from them were downmixed
C29_Witness ==
    /\ last.op = "convertStereoToMono"
    /\ last.arg.stereoBuffer = <<0, 128, 255, 0, 255, 255, 0, 128>>
    /\ last.data.monoBuffer = <<0, 128, 255, 255>>

-----------------------------------------------------------------------------
(* Claims about the respawn of the capture (SpecCapture) *)

\* C30: once the 'close' event of the capture subprocess has been handled the process
\* handle is null, and a start() that follows and whose spawn succeeds finds no handle
\* and leaves the handle of a fresh subprocess, with nothing read from it yet.
C30_ExitClearsHandleForRespawn ==
    /\ last.op = "audioExited" => systemAudioProc = "null"
    /\ (last.op = "startAudio" /\ last.data.afterExit) =>
          /\ last.data.found = "null"
          /\ last.arg.outcome = "started" =>
                (/\ last.ret = "success"
                 /\ systemAudioProc = "running"
                 /\ audioBuffer = 0 /\ audioReceived = 0)

\* C30 witness: the start() right after an unexpected exit spawned a fresh subprocess
C30_Witness ==
    /\ last.op = "startAudio" /\ last.data.afterExit
    /\ last.ret = "success"
    /\ systemAudioProc = "running"

-----------------------------------------------------------------------------
(* getStoredSetting with its failure paths.  The outcome of the read is an input:     *)
(*   "noWindow"        BrowserWindow.getAllWindows() is empty                         *)
(*   "throws"          getAllWindows or executeJavaScript throws or rejects           *)
(*   "noLocalStorage"  typeof localStorage === 'undefined' in the renderer            *)
(*   "innerThrows"     localStorage.getItem throws in the renderer                    *)
(*   "read"            the renderer script read localStorage                          *)
ReadOutcomes == {"noWindow", "throws", "noLocalStorage", "innerThrows", "read"}

\* what localStorage holds under the key: nothing, an empty string, the two values
\* the renderer writes, and a value nobody writes
StoredValues == {"null", "", "true", "false", "yes"}

\* the script run by executeJavaScript
executeJavaScript(outcome, stored, defaultValue) ==
    IF outcome \in {"noLocalStorage", "innerThrows"}
    THEN defaultValue
    ELSE getStoredSetting(stored, defaultValue)

\* getStoredSetting as a whole: the default without a window or on an exception
getStoredSettingVia(outcome, stored, defaultValue) ==
    IF outcome \in {"noWindow", "throws"}
    THEN defaultValue
    ELSE executeJavaScript(outcome, stored, defaultValue)

\* getEnabledTools over a read that ends in the given outcome
getEnabledToolsVia(outcome, stored) ==
    IF getStoredSettingVia(outcome, stored, "true") = "true" THEN {"googleSearch"} ELSE {}

(* One call of getEnabledTools against the stored setting *)
GetEnabledTools(outcome) ==
    /\ last' = [Obs("getEnabledTools",
                    [outcome |-> outcome, stored |-> googleSearchEnabled], "none", <<>>)
                EXCEPT !.data =
                    [tools |-> getEnabledToolsVia(outcome, googleSearchEnabled)]]
    /\ UNCHANGED <<currentSession, recorderVars, isInitializingSession,
                   reconnectionAttempts, lastSessionParams, transports, now, toolVars,
                   initCall, delayed, authHalted, userClosed, openAttempts, audioVars>>

\* SpecResolve: the setting is stored, emptied and overwritten while sessions are
\* connected and closed, and getEnabledTools is called with every outcome of the read.
NextResolve ==
    \/ Connect("key1")
    \/ ToolsResolved
    \/ ConnectOpened
    \/ ConnectFailed
    \/ CloseSession(FALSE, FALSE)
    \/ \E value \in StoredValues : SetGoogleSearchEnabled(value)
    \/ \E outcome \in ReadOutcomes : GetEnabledTools(outcome)

SpecResolve == Init /\ [][NextResolve]_vars

\* the read did not deliver a stored value
ReadFailed(arg) == arg.outcome # "read" \/ arg.stored = "null"

(* C31: getEnabledTools is fail-open.  Whenever the stored setting cannot be read (no   *)
(* window, the read throws, localStorage is missing, or nothing is stored) the tools   *)
(* contain googleSearch; googleSearch is absent only when the read delivered a value   *)
(* other than 'true'.                                                                   *)
C31_ResolverFailsOpen ==
    last.op = "getEnabledTools" =>
        /\ ReadFailed(last.arg) => "googleSearch" \in last.data.tools
        /\ "googleSearch" \notin last.data.tools =>
               /\ last.arg.outcome = "read"
               /\ last.arg.stored \notin {"null", "true"}

\* the setting holds 'false', the read throws, and the search tool is enabled
C31_Witness ==
    /\ last.op = "getEnabledTools"
    /\ last.arg.outcome = "throws"
    /\ last.arg.stored = "false"
    /\ "googleSearch" \in last.data.tools

-----------------------------------------------------------------------------
(* Claims about the 'save-conversation-turn' event (SpecTurns) *)

\* turns a history may hold in SpecTurns
MaxSaved == 2

\* SpecTurns: sessions whose history grows to several turns, one fragment text per
\* pending buffer, are restarted at a later time and go on growing.
NextTurns ==
    \/ Connect("key1")
    \/ ToolsResolved
    \/ ConnectOpened
    \/ \E m \in Messages :
          /\ currentSession # 0
          /\ OnMessage(currentSession, m)
          /\ Len(currentTranscription \o m.transcription) <= 1
          /\ Len(AppendParts(messageBuffer, m.parts)) <= 1
          /\ Len(conversationHistory') <= MaxSaved
    \/ StartNewSession
    \/ Tick

SpecTurns == Init /\ [][NextTurns]_vars

\* the step pushed a turn onto conversationHistory
TurnPushed ==
    /\ Len(conversationHistory') = Len(conversationHistory) + 1
    /\ SubSeq(conversationHistory', 1, Len(conversationHistory)) = conversationHistory

\* the step sent a 'save-conversation-turn' event
SaveEventSent == last' # last /\ last'.saved # <<>>

(* C32: every Turn appended to conversationHistory raises exactly one                  *)
(* 'save-conversation-turn' event, which carries the current session id, the appended  *)
(* Turn and a full history whose last element is that Turn; no such event is raised    *)
(* by a step that appends nothing.                                                      *)
C32_OneSaveEventPerTurn ==
    [][/\ TurnPushed =>
            /\ Len(last'.saved) = 1
            /\ last'.saved[1].sessionId = currentSessionId'
            /\ last'.saved[1].turn = conversationHistory'[Len(conversationHistory')]
            /\ last'.saved[1].fullHistory = conversationHistory'
       /\ SaveEventSent => TurnPushed]_vars

\* a second turn was appended to the history of a session started after the first one
C32_Witness ==
    /\ last.op = "onMessage" /\ Len(last.saved) = 1
    /\ Len(conversationHistory) = 2
    /\ last.saved[1].sessionId > 0
    /\ last.saved[1].fullHistory[2] = last.saved[1].turn

-----------------------------------------------------------------------------
(* Claims about onerror (SpecClassify) *)

\* the step is an onerror whose message is none of the API-key errors
PlainErrorStep == last'.op = "onError" /\ ~isApiKeyError(last'.arg.text)

(* C33: an onerror whose message is not an API-key error only emits the status         *)
(* 'Error: <message>': the handle held, the transports, the session parameters, the    *)
(* attempts counter, the session id, the history and both pending buffers stay as they *)
(* were, no reconnection is started and no other event is emitted.                     *)
C33_PlainErrorOnlyEmitsStatus ==
    [][PlainErrorStep =>
         /\ last'.status = <<Status("Error: ", last'.arg.text)>>
         /\ last'.response = <<>> /\ last'.saved = <<>> /\ last'.sent = <<>>
         /\ UNCHANGED <<currentSession, transports, lastSessionParams,
                        reconnectionAttempts, recorderVars, isInitializingSession,
                        initCall, delayed, authHalted, userClosed>>]_vars

\* a network error reported on the transport held by a session that could reconnect
C33_Witness ==
    /\ last.op = "onError" /\ last.arg.text = Txt_network
    /\ last.status = <<Status("Error: ", Txt_network)>>
    /\ currentSession # 0 /\ transports[currentSession] = "open"
    /\ lastSessionParams # NoParams
    /\ reconnectionAttempts < maxReconnectionAttempts

-----------------------------------------------------------------------------
(* Claims about the pending buffers at the start of a session (SpecRecorder) *)

(* C34: right after every step that starts a session (the initializeNewSession of an   *)
(* accepted connect, or start-new-session) the pending transcription and the pending   *)
(* response are both empty, so no fragment received during the previous session can    *)
(* appear in a turn or a response of the new one.                                      *)
C34_BuffersEmptyAtSessionStart ==
    [][StartsSession => (currentTranscription' = <<>> /\ messageBuffer' = <<>>)]_vars

\* a session was started while response text of the previous one was pending
C34_Witness ==
    /\ last.op = "startNewSession"
    /\ conversationHistory = <<>> /\ currentTranscription = <<>>
    /\ messageBuffer # <<>>

-----------------------------------------------------------------------------
(* Claims about the residual of the stdout handler (SpecAudio) *)

\* the bytes at hand in a data event: the residual of the last one and the new data
AtHand == audioBuffer + last'.arg.size

(* C35: after every stdout data event the residual buffer is strictly shorter than one *)
(* stereo chunk (9600 bytes), so the truncation to one second never drops a byte: the  *)
(* residual is exactly what the whole chunks at hand leave over, and every chunk the   *)
(* received bytes complete has been cut and passed on.                                 *)
C35_ResidualShorterThanChunk ==
    /\ [](/\ audioBuffer < CHUNK_SIZE
          /\ audioBuffer <= maxBufferSize
          /\ audioReceived = Len(audioForwarded) * CHUNK_SIZE + audioBuffer)
    /\ [][AudioDataStep =>
             /\ audioBuffer' = AtHand % CHUNK_SIZE
             /\ Len(last'.data.frames) = AtHand \div CHUNK_SIZE
             /\ Len(audioForwarded') = Len(audioForwarded) + AtHand \div CHUNK_SIZE]_vars

\* a data event of one chunk's size completed the chunk begun by the residual and left
\* half a chunk as the new residual
C35_Witness ==
    /\ last.op = "audioData" /\ last.arg.size = CHUNK_SIZE
    /\ Len(last.data.frames) = 1
    /\ audioBuffer = CHUNK_SIZE \div 2
    /\ audioReceived = CHUNK_SIZE + CHUNK_SIZE \div 2

-----------------------------------------------------------------------------
(* Claims about the handle of the capture subprocess (SpecRestart) *)

\* SpecRestart: the capture is started, restarted while an earlier subprocess is
\* still running, fed, stopped, and exits by itself, with the 'close' event of a killed
\* subprocess arriving before or after the next spawn, beside a session that is
\* connected and closed.
NextRestart ==
    \/ Connect("key1")
    \/ ToolsResolved
    \/ ConnectOpened
    \/ \E outcome \in {"notDarwin", "noPid", "started"} : StartMacOSAudio(outcome)
    \/ StartMacOSAudioOverEarlier
    \/ AudioEarlierClosed
    \/ AudioData(CHUNK_SIZE, {}) /\ audioReceived < CHUNK_SIZE
    \/ AudioProcExited
    \/ AudioSpawnError
    \/ StopMacOSAudio(FALSE)
    \/ CloseSession(FALSE, FALSE)

SpecRestart == Init /\ [][NextRestart]_vars

\* the step is a completed stopMacOSAudioCapture
StopStep == last'.op = "stopAudio" /\ last'.ret = "success"

(* C36: whenever a capture subprocess spawned by a start is still running, the handle  *)
(* systemAudioProc refers to it, so that a stop terminates it: the 'close' event of an *)
(* earlier subprocess never clears the handle of a newly spawned one, and after a stop *)
(* no subprocess spawned by a start keeps running.                                     *)
C36_HandleTracksRunningCapture ==
    /\ [](earlierProc # "running")
    /\ [][last'.op = "audioEarlierClosed" =>
             (systemAudioProc = "running" => systemAudioProc' = "running")]_vars
    /\ [][StopStep => (systemAudioProc' # "running" /\ earlierProc' # "running")]_vars

\* a stop found no handle and left the subprocess of the last start running
C36_Witness ==
    /\ last.op = "stopAudio" /\ last.ret = "success"
    /\ systemAudioProc = "null"
    /\ earlierProc = "running"

-----------------------------------------------------------------------------
(* Claims about progress (SpecLive).  Every await of initializeGeminiSession and       *)
(* attemptReconnection is one that settles: the 100 ms timer and executeJavaScript of  *)
(* getStoredSetting, the promise of client.live.connect (resolved or rejected), and    *)
(* the timer of the reconnection delay.  The continuation of a settled await is run by *)
(* the event loop, which is weak fairness of the step that follows the await.  Nothing *)
(* is assumed of the user, the server or the network.                                  *)

NextLive ==
    \/ \E p \in Params : Connect(p)
    \/ ToolsResolved
    \/ ConnectOpened
    \/ ConnectFailed
    \/ DelayElapsed
    \/ \E t \in TransportIds, m \in {Txt_unauthorized, Txt_network} : OnClose(t, m)
    \/ CloseSession(FALSE, FALSE)

SpecLive ==
    /\ Init /\ [][NextLive]_vars
    /\ WF_vars(ToolsResolved)
    /\ WF_vars(ConnectOpened \/ ConnectFailed)
    /\ WF_vars(DelayElapsed)

ReconnectionsInProgress ==
    delayed + (IF initCall.pc # "idle" /\ initCall.isReconnection THEN 1 ELSE 0)

\* the step is the acceptance of a connect() during a reconnection procedure
ConnectDuringReconnection == ConnectAcceptedStep /\ ReconnectionsInProgress > 0

\* the step is a reconnection attempt rejected by initializeGeminiSession because an
\* initialization was in progress
RejectedAttemptStep ==
    /\ last'.op = "reconnectFailed"
    /\ delayed > 0 /\ isInitializingSession /\ lastSessionParams # NoParams
    /\ initCall' = initCall

\* a rejected attempt is dealt with as a failed one: it has used up one unit of the
\* budget, and the procedure goes on to its next attempt or gives up
RejectedCountsAsFailed ==
    [][RejectedAttemptStep =>
         IF reconnectionAttempts < maxReconnectionAttempts
         THEN /\ reconnectionAttempts' = reconnectionAttempts + 1
              /\ delayed' = delayed
              /\ last'.status = <<>>
         ELSE /\ reconnectionAttempts' = reconnectionAttempts
              /\ delayed' = delayed - 1
              /\ last'.status = <<StSessionClosed>>]_vars

\* a non-auth onclose has just started a reconnection procedure
ReconnectionStarted == last.op = "onClose" /\ last.ret = "reconnecting"

\* a reconnection has just opened a transport, or 'Session closed' was just emitted
ReconnectionEnded == last.op = "reconnected" \/ last.status = <<StSessionClosed>>

\* C38 as claimed: every reconnection procedure terminates, given only that every
\* call of client.live.connect returns: after a non-auth onclose that starts a
\* reconnection, eventually a reconnection opens a transport or 'Session closed' is
\* emitted; a rejected attempt counts as a failed one.
C38_ReconnectionTerminates ==
    /\ ReconnectionStarted ~> ReconnectionEnded
    /\ RejectedCountsAsFailed

\* C38 as amended: the same, given also that connect() is accepted only finitely often
\* while a reconnection procedure is in progress (every accepted connect sets the
\* attempts counter back to 0).
C38_ReconnectionTerminatesUnlessRestarted ==
    /\ ([]<><<ConnectDuringReconnection>>_vars) \/ (ReconnectionStarted ~> ReconnectionEnded)
    /\ RejectedCountsAsFailed

\* C38 witness: the second attempt of a procedure was rejected while a connect() of
\* the user was in progress, and the procedure waits for its third and last attempt
C38_Witness ==
    /\ last.op = "reconnectFailed" /\ last.status = <<>>
    /\ isInitializingSession /\ ~initCall.isReconnection
    /\ delayed > 0
    /\ reconnectionAttempts = maxReconnectionAttempts

=============================================================================
